---- MODULE Spec2Model ----
(***************************************************************************)
(* mdview: the live-view coordination core of main.go.                     *)
(*                                                                         *)
(*   run          startup read, server, lifecycle monitor, shutdown        *)
(*   watchFiles   poll-based change detector                               *)
(*   handleSSE    live-update stream, one channel per stream               *)
(*   notifyClients fan-out of the reload signal                            *)
(*   renderMarkdown  read of the stored snapshot                           *)
(*                                                                         *)
(* Goroutines are processes with a program position each; a lock that is   *)
(* taken and released inside one step is a guard of that step.             *)
(***************************************************************************)
EXTENDS Integers, Sequences, FiniteSets, TLC

\* ---------------------------------------------------------------- bounds
NPaths == 3
MaxViewers == 2
MaxEdits == 2
MaxDeletes == 1

\* capacity of a stream's channel: make(chan struct{}, 1)
ChanCap == 1

Paths == 1..NPaths
Viewers == 1..MaxViewers

\* the separator '\n', '\n'
NL == 10
Sep == <<NL, NL>>

\* the contents a source can have: empty, or one byte that names the source
ContentsOf(p) == {<<>>, <<64 + p>>}
StdinContents == {<<>>, <<64>>}

VARIABLES
    args,           \* os.Args[1:]: <<>> (stdin mode) or the list of paths
    fexists, fmtime, fdata,   \* the file system: one entry per path
    edits, deletes, \* number of edits / deletions made so far
    filePath,       \* 0 is "", otherwise args[0]
    content,        \* the slice header of the snapshot: [ptr, len]
    muW,            \* mu: the writer holding it across steps
    clients,        \* the registry: set of registered channels
    chan,           \* pending signals of each stream's channel
    clientsMu,      \* the holder of clientsMu across steps
    mpc,            \* position of run
    cause,          \* the case the final select of run took
    listening,      \* the listener accepts connections
    ctxCancelled,   \* ctx of run is cancelled
    sigPending,     \* sigCh holds a signal
    disconnectClosed, \* disconnectCh is closed
    shutdownErr,    \* result of server.Shutdown
    monpc,          \* position of the lifecycle monitor goroutine
    count,          \* the monitor's count := len(clients)
    wpc,            \* position of watchFiles
    modTimes,       \* watchFiles: recorded modification time per path
    combined,       \* watchFiles: the re-read bytes
    ntodo,          \* notifyClients: channels the range loop has not visited
    vpc,            \* per viewer: position of handleSSE
    page,           \* per viewer: a browser tab shows the page
    ctxDone,        \* per viewer: r.Context() of the stream is done
    rpc,            \* per viewer: request running renderMarkdown
    src,            \* per viewer: src of renderMarkdown
    display,        \* per viewer: what the page shows
    owed,           \* per viewer: reload events whose fetch has not started
    \* history
    installed,      \* every snapshot header installed in full
    everSubscribed, \* some stream has registered
    zeroSamples,    \* consecutive samples that found the registry empty (capped)
    firedZeros,     \* zeroSamples when disconnectCh was closed
    delivered,      \* per viewer: received since notifyClients sent to it
    cycles,         \* number of ticks that found a change (capped)
    idleTicks,      \* number of ticks that found no change (capped)
    advEdits,       \* number of edits that moved a time past the recorded one
    advanced,       \* paths whose time an edit moved past the recorded one
    firedPaths,     \* paths for which a tick has found a change
    cver,           \* the cycle whose install wrote content (0: the startup read)
    sigVer,         \* per viewer: the cycle that put the pending signal in its
                    \* channel (0: no signal pending)
    seenVer,        \* per viewer: the cycle of the signal the stream of its page
                    \* received last
    dipped          \* "dipped": the registry went empty since the monitor's last
                    \* sample; "sampled": and the next sample found a stream;
                    \* "kept": and the check of that sample is over

vars == <<args, fexists, fmtime, fdata, edits, deletes, filePath, content, muW,
          clients, chan, clientsMu, mpc, cause, listening, ctxCancelled, sigPending,
          disconnectClosed, shutdownErr, monpc, wpc, modTimes, combined, ntodo,
          vpc, ctxDone, rpc, src, page, display, owed,
          installed, everSubscribed, zeroSamples, firedZeros, delivered, cycles,
          idleTicks, advEdits, advanced, firedPaths, count,
          cver, sigVer, seenVer, dipped>>

fileVars == <<fexists, fmtime, fdata, edits, deletes, advEdits, advanced>>
storeVars == <<content, muW, installed, cver>>
regVars == <<clients, chan, clientsMu, ntodo, delivered, sigVer, seenVer>>
mainVars == <<args, filePath, mpc, cause, listening, ctxCancelled, sigPending,
              disconnectClosed, shutdownErr>>
monVars == <<monpc, count, zeroSamples, firedZeros, dipped>>
watchVars == <<wpc, modTimes, combined, cycles, idleTicks, firedPaths>>
viewVars == <<vpc, ctxDone, rpc, src, page, display, owed>>

\* ------------------------------------------------------------- helpers
Header(s) == [ptr |-> s, len |-> Len(s)]
NilHeader == Header(<<>>)

\* the bytes a slice header denotes
Bytes(h) == IF h.len <= Len(h.ptr) THEN SubSeq(h.ptr, 1, h.len) ELSE h.ptr

Min(a, b) == IF a < b THEN a ELSE b

\* the process is running
Alive == mpc \notin {"exited", "failed"}

\* one iteration of the combine loop: separator when something is already
\* there, then the data
AppendSource(acc, data) ==
    (IF Len(acc) > 0 THEN acc \o Sep ELSE acc) \o data

\* the combine loop of watchFiles over paths[i..]: a path that cannot be read
\* is skipped
RECURSIVE RereadFrom(_, _, _)
RereadFrom(paths, i, acc) ==
    IF i > Len(paths) THEN acc
    ELSE IF ~fexists[paths[i]] THEN RereadFrom(paths, i + 1, acc)
    ELSE RereadFrom(paths, i + 1, AppendSource(acc, fdata[paths[i]]))

RereadAll(paths) == RereadFrom(paths, 1, <<>>)

\* the combine loop of run: a path that cannot be read is an error
StartupReadable(paths) == \A i \in 1..Len(paths) : fexists[paths[i]]
StartupCombine(paths) == RereadFrom(paths, 1, <<>>)

\* a slip: the tick keeps the old time
Recorded_Stale(t, lastMod) == lastMod
\* modTimes[absPath] = info.ModTime()
Recorded(t, lastMod) == t

\* a slip: "not before" in place of "after"
After_NotBefore(t, lastMod) == t >= lastMod
\* info.ModTime().After(lastMod)
After(t, lastMod) == t > lastMod

\* a slip: the send is always dropped
TrySend_Drop(n) == n
\* a slip: the send queues instead of dropping
TrySend_Queue(n) == n + 1
\* select { case ch <- struct{}{}: default: }
TrySend(n) == IF n < ChanCap THEN n + 1 ELSE n

\* a slip: the read does not take the lock
CanRLock_NoLock == TRUE
\* mu.RLock() can be taken: no writer holds mu
CanRLock == muW = "none"
\* mu.Lock() can be taken: no writer holds mu (a reader holds it within one
\* step only)
CanLock == muW = "none"

\* clients[ch] = struct{}{} and delete(clients, ch)
Register(cs, ch) == cs \cup {ch}
\* a slip: the deferred delete is missing
Unregister_Leak(cs, ch) == cs
Unregister(cs, ch) == cs \ {ch}

\* a slip: the send blocks while the slot is full
CanSend_Blocking(n) == n < ChanCap
\* the select of notifyClients has a default case: it never waits
CanSend(n) == TRUE

\* a slip: mu.Unlock() is missing
MuUnlock_Missing == "watch"
\* mu.Unlock() after content = combined
MuUnlock == "none"

\* a slip: notifyClients is called without the install
AfterReread_NoInstall == "notify"
\* after the re-read loop: mu.Lock(), content = combined
AfterReread == "install"

\* a slip: the first loop does not wait for a viewer
IdleBreak_Any(n) == n >= 0
\* the monitor's first loop breaks
IdleBreak(n) == n > 0
\* a slip: the second loop fires when one stream is left
DrainFires_LastOne(n) == n <= 1
\* a slip: the second loop fires whatever the count
DrainFires_Any(n) == TRUE
\* the monitor's second loop closes disconnectCh
DrainFires(n) == n = 0

\* ---------------------------------------------------------------- Init
Init ==
    /\ args \in {<<>>, [i \in 1..NPaths |-> i]}
    /\ fexists \in [Paths -> BOOLEAN]
    /\ fmtime = [p \in Paths |-> 0]
    /\ fdata \in {f \in [Paths -> UNION {ContentsOf(p) : p \in Paths}] :
                    \A p \in Paths : f[p] \in ContentsOf(p)}
    /\ args = <<>> => /\ fexists = [p \in Paths |-> FALSE]
                      /\ fdata = [p \in Paths |-> <<>>]
    /\ edits = 0 /\ deletes = 0
    /\ filePath = 0
    /\ content = NilHeader
    /\ muW = "none"
    /\ clients = {}
    /\ chan = [v \in Viewers |-> 0]
    /\ clientsMu = "none"
    /\ mpc = "start"
    /\ cause = "none"
    /\ listening = FALSE
    /\ ctxCancelled = FALSE
    /\ sigPending = FALSE
    /\ disconnectClosed = FALSE
    /\ shutdownErr = "none"
    /\ monpc = "off"
    /\ count = 0
    /\ wpc = "off"
    /\ modTimes = <<>>
    /\ combined = <<>>
    /\ ntodo = {}
    /\ vpc = [v \in Viewers |-> "closed"]
    /\ ctxDone = [v \in Viewers |-> FALSE]
    /\ rpc = [v \in Viewers |-> "none"]
    /\ src = [v \in Viewers |-> NilHeader]
    /\ page = [v \in Viewers |-> FALSE]
    /\ display = [v \in Viewers |-> <<>>]
    /\ owed = [v \in Viewers |-> FALSE]
    /\ installed = {}
    /\ everSubscribed = FALSE
    /\ zeroSamples = 0
    /\ firedZeros = 0
    /\ delivered = [v \in Viewers |-> FALSE]
    /\ cycles = 0
    /\ idleTicks = 0
    /\ advEdits = 0
    /\ advanced = {}
    /\ firedPaths = {}
    /\ cver = 0
    /\ sigVer = [v \in Viewers |-> 0]
    /\ seenVer = [v \in Viewers |-> 0]
    /\ dipped = "none"

\* ------------------------------------------------------ the file system
\* the modification times an edit can leave on path p: the clock moved on, it
\* did not (coarse time stamps), or the time was set back
NewTimes(p) == {t \in {fmtime[p] - 1, fmtime[p], fmtime[p] + 1} : t >= 0}

\* an editor writes path p: contents d, modification time t
Edit(p, d, t) ==
    /\ Alive /\ mpc # "start" /\ filePath # 0
    /\ edits < MaxEdits
    /\ edits' = edits + 1
    /\ fexists' = [fexists EXCEPT ![p] = TRUE]
    /\ fdata' = [fdata EXCEPT ![p] = d]
    /\ fmtime' = [fmtime EXCEPT ![p] = t]
    /\ IF p \in DOMAIN modTimes /\ t > modTimes[p]
         THEN /\ advanced' = advanced \cup {p}
              /\ advEdits' = advEdits + 1
         ELSE UNCHANGED <<advanced, advEdits>>
    /\ UNCHANGED <<deletes, storeVars, regVars, mainVars, monVars, viewVars,
                   watchVars, everSubscribed>>

\* path p is deleted
Delete(p) ==
    /\ Alive /\ mpc # "start" /\ filePath # 0
    /\ fexists[p]
    /\ deletes < MaxDeletes
    /\ deletes' = deletes + 1
    /\ fexists' = [fexists EXCEPT ![p] = FALSE]
    /\ UNCHANGED <<fmtime, fdata, edits, advEdits, advanced, storeVars, regVars,
                   mainVars, monVars, viewVars, watchVars, everSubscribed>>

\* ------------------------------------------------------------------ run
\* stdin mode: read the pipe, install the snapshot
RunStdin ==
    /\ mpc = "start" /\ args = <<>>
    /\ \E d \in StdinContents :
         /\ content' = Header(d)
         /\ installed' = installed \cup {Header(d)}
    /\ filePath' = 0
    /\ mpc' = "listen"
    /\ UNCHANGED <<fileVars, muW, cver, regVars, args, cause, listening, ctxCancelled,
                   sigPending, disconnectClosed, shutdownErr, monVars, watchVars,
                   viewVars, everSubscribed>>

\* path mode: read every file, combine, install the snapshot; a file that
\* cannot be read ends run with an error
RunReadFiles ==
    /\ mpc = "start" /\ args # <<>>
    /\ IF StartupReadable(args)
         THEN /\ content' = Header(StartupCombine(args))
              /\ installed' = installed \cup {Header(StartupCombine(args))}
              /\ filePath' = args[1]
              /\ mpc' = "listen"
         ELSE /\ mpc' = "failed"
              /\ UNCHANGED <<content, installed, filePath>>
    /\ UNCHANGED <<fileVars, muW, cver, regVars, args, cause, listening, ctxCancelled,
                   sigPending, disconnectClosed, shutdownErr, monVars, watchVars,
                   viewVars, everSubscribed>>

\* listen and serve, start watchFiles in path mode, start the monitor
RunServe ==
    /\ mpc = "listen"
    /\ listening' = TRUE
    /\ wpc' = IF filePath # 0 THEN "baseline" ELSE wpc
    /\ monpc' = "idle"
    /\ mpc' = "select"
    /\ UNCHANGED <<fileVars, storeVars, regVars, args, filePath, cause, ctxCancelled,
                   sigPending, disconnectClosed, shutdownErr, count, zeroSamples,
                   firedZeros, dipped, modTimes, combined, cycles, idleTicks, firedPaths,
                   viewVars, everSubscribed>>

\* server.Serve returns an error other than ErrServerClosed: cancel()
ServeError ==
    /\ Alive /\ listening
    /\ listening' = FALSE
    /\ ctxCancelled' = TRUE
    /\ UNCHANGED <<fileVars, storeVars, regVars, args, filePath, mpc, cause, sigPending,
                   disconnectClosed, shutdownErr, monVars, watchVars, viewVars,
                   everSubscribed>>

\* SIGINT or SIGTERM arrives; sigCh has one slot
Signal ==
    /\ mpc = "select"
    /\ ~sigPending
    /\ sigPending' = TRUE
    /\ UNCHANGED <<fileVars, storeVars, regVars, args, filePath, mpc, cause, listening,
                   ctxCancelled, disconnectClosed, shutdownErr, monVars, watchVars,
                   viewVars, everSubscribed>>

\* the final select of run takes a ready case c; server.Shutdown closes the
\* listener
RunSelect(c) ==
    /\ mpc = "select"
    /\ \/ c = "signal" /\ sigPending
       \/ c = "disconnect" /\ disconnectClosed
       \/ c = "ctx" /\ ctxCancelled
    /\ cause' = c
    /\ sigPending' = IF c = "signal" THEN FALSE ELSE sigPending
    /\ listening' = FALSE
    /\ mpc' = "shutdown"
    /\ UNCHANGED <<fileVars, storeVars, regVars, args, filePath, ctxCancelled,
                   disconnectClosed, shutdownErr, monVars, watchVars, viewVars,
                   everSubscribed>>

\* connections with a handler running
ActiveConns == {v \in Viewers : vpc[v] \in {"stream", "emit", "defer"} \/ rpc[v] # "none"}

\* server.Shutdown returns nil once no connection is active; run returns
\* (deferred cancel) and the process exits
ShutdownDone ==
    /\ mpc = "shutdown"
    /\ ActiveConns = {}
    /\ shutdownErr' = "nil"
    /\ ctxCancelled' = TRUE
    /\ mpc' = "exited"
    /\ UNCHANGED <<fileVars, storeVars, regVars, args, filePath, cause, listening,
                   sigPending, disconnectClosed, monVars, watchVars, viewVars,
                   everSubscribed>>

\* the grace period ends while a connection is still active: server.Shutdown
\* returns the deadline error; run returns and the process exits
ShutdownTimeout ==
    /\ mpc = "shutdown"
    /\ ActiveConns # {}
    /\ shutdownErr' = "deadline"
    /\ ctxCancelled' = TRUE
    /\ mpc' = "exited"
    /\ UNCHANGED <<fileVars, storeVars, regVars, args, filePath, cause, listening,
                   sigPending, disconnectClosed, monVars, watchVars, viewVars,
                   everSubscribed>>

\* ------------------------------------------------- the lifecycle monitor
\* first loop: after the sleep, count := len(clients) under clientsMu
MonitorIdleSample ==
    /\ Alive /\ monpc = "idle"
    /\ clientsMu = "none"
    /\ count' = Cardinality(clients)
    /\ zeroSamples' = IF clients = {} THEN Min(zeroSamples + 1, 2) ELSE 0
    /\ monpc' = "idleCheck"
    /\ UNCHANGED <<fileVars, storeVars, regVars, mainVars, firedZeros, dipped, watchVars,
                   viewVars, everSubscribed>>

\* first loop: break when count > 0, return when ctx is done, else loop
MonitorIdleCheck ==
    /\ Alive /\ monpc = "idleCheck"
    /\ monpc' = IF IdleBreak(count) THEN "active"
                ELSE IF ctxCancelled THEN "done" ELSE "idle"
    /\ UNCHANGED <<fileVars, storeVars, regVars, mainVars, count, zeroSamples,
                   firedZeros, dipped, watchVars, viewVars, everSubscribed>>

\* second loop: after the sleep, count := len(clients) under clientsMu
MonitorActiveSample ==
    /\ Alive /\ monpc = "active"
    /\ clientsMu = "none"
    /\ count' = Cardinality(clients)
    /\ zeroSamples' = IF clients = {} THEN Min(zeroSamples + 1, 2) ELSE 0
    /\ monpc' = "activeCheck"
    /\ dipped' = IF dipped = "dipped" /\ clients # {} THEN "sampled" ELSE "none"
    /\ UNCHANGED <<fileVars, storeVars, regVars, mainVars, firedZeros, watchVars,
                   viewVars, everSubscribed>>

\* second loop: close(disconnectCh) and return when count == 0, return when
\* ctx is done, else loop
MonitorActiveCheck ==
    /\ Alive /\ monpc = "activeCheck"
    /\ IF DrainFires(count)
         THEN /\ disconnectClosed' = TRUE
              /\ firedZeros' = IF count = 0 THEN zeroSamples ELSE 0
              /\ monpc' = "done"
         ELSE /\ monpc' = IF ctxCancelled THEN "done" ELSE "active"
              /\ UNCHANGED <<disconnectClosed, firedZeros>>
    /\ dipped' = IF dipped = "sampled" THEN "kept" ELSE dipped
    /\ UNCHANGED <<fileVars, storeVars, regVars, args, filePath, mpc, cause, listening,
                   ctxCancelled, sigPending, shutdownErr, count, zeroSamples, watchVars,
                   viewVars, everSubscribed>>

\* ------------------------------------------------------------ watchFiles
\* the paths of a list
PathSet(paths) == {paths[i] : i \in 1..Len(paths)}

\* the baseline loop: record the modification time of every path that stats
WatchBaseline ==
    /\ Alive /\ wpc = "baseline"
    /\ modTimes' = [p \in {q \in PathSet(args) : fexists[q]} |-> fmtime[p]]
    /\ wpc' = "select"
    /\ UNCHANGED <<fileVars, storeVars, regVars, mainVars, monVars, viewVars,
                   combined, cycles, idleTicks, firedPaths, everSubscribed>>

\* the paths a tick finds changed: they stat, and their time is after the
\* recorded one
ChangedPaths == {p \in DOMAIN modTimes : fexists[p] /\ After(fmtime[p], modTimes[p])}

\* case <-ticker.C: the stat loop
WatchTick ==
    /\ Alive /\ wpc = "select"
    /\ modTimes' = [p \in DOMAIN modTimes |->
                      IF p \in ChangedPaths THEN Recorded(fmtime[p], modTimes[p])
                                             ELSE modTimes[p]]
    /\ firedPaths' = firedPaths \cup ChangedPaths
    /\ IF ChangedPaths # {}
         THEN /\ wpc' = "reread"
              /\ cycles' = Min(cycles + 1, MaxEdits + 1)
              /\ UNCHANGED idleTicks
         ELSE /\ wpc' = "select"
              /\ idleTicks' = Min(idleTicks + 1, 1)
              /\ UNCHANGED cycles
    /\ UNCHANGED <<fileVars, storeVars, regVars, mainVars, monVars, viewVars,
                   combined, everSubscribed>>

\* case <-ctx.Done(): return
WatchReturn ==
    /\ Alive /\ wpc = "select"
    /\ ctxCancelled
    /\ wpc' = "done"
    /\ UNCHANGED <<fileVars, storeVars, regVars, mainVars, monVars, viewVars,
                   modTimes, combined, cycles, idleTicks, firedPaths, everSubscribed>>

\* changed: re-read all files
WatchReread ==
    /\ Alive /\ wpc = "reread"
    /\ combined' = RereadAll(args)
    /\ wpc' = AfterReread
    /\ UNCHANGED <<fileVars, storeVars, regVars, mainVars, monVars, viewVars,
                   modTimes, cycles, idleTicks, firedPaths, everSubscribed>>

\* mu.Lock() and the first word of content = combined
InstallBegin ==
    /\ Alive /\ wpc = "install"
    /\ CanLock
    /\ muW' = "watch"
    /\ content' = [content EXCEPT !.ptr = combined]
    /\ wpc' = "installing"
    /\ UNCHANGED <<fileVars, installed, cver, regVars, mainVars, monVars, viewVars,
                   modTimes, combined, cycles, idleTicks, firedPaths, everSubscribed>>

\* the rest of content = combined, and mu.Unlock()
InstallEnd ==
    /\ Alive /\ wpc = "installing"
    /\ content' = [content EXCEPT !.len = Len(combined)]
    /\ installed' = installed \cup {Header(combined)}
    /\ cver' = cycles
    /\ muW' = MuUnlock
    /\ wpc' = "notify"
    /\ UNCHANGED <<fileVars, regVars, mainVars, monVars, viewVars,
                   modTimes, combined, cycles, idleTicks, firedPaths, everSubscribed>>

\* --------------------------------------------------------- notifyClients
\* clientsMu.Lock(); the range loop starts
NotifyLock ==
    /\ Alive /\ wpc = "notify"
    /\ clientsMu = "none"
    /\ clientsMu' = "notify"
    /\ ntodo' = clients
    /\ wpc' = "sending"
    /\ UNCHANGED <<fileVars, storeVars, clients, chan, delivered, sigVer, seenVer,
                   mainVars, monVars, viewVars, modTimes, combined, cycles, idleTicks, firedPaths, everSubscribed>>

\* one iteration of the range loop: the non-blocking send to ch
NotifySend(ch) ==
    /\ Alive /\ wpc = "sending"
    /\ ch \in ntodo
    /\ CanSend(chan[ch])
    /\ chan' = [chan EXCEPT ![ch] = TrySend(chan[ch])]
    /\ sigVer' = [sigVer EXCEPT ![ch] = IF TrySend(chan[ch]) > chan[ch] THEN cycles ELSE @]
    /\ delivered' = [delivered EXCEPT ![ch] = FALSE]
    /\ ntodo' = ntodo \ {ch}
    /\ UNCHANGED <<fileVars, storeVars, clients, clientsMu, seenVer, mainVars, monVars,
                   viewVars, watchVars, everSubscribed>>

\* the loop is over: deferred clientsMu.Unlock(), back to the select
NotifyUnlock ==
    /\ Alive /\ wpc = "sending"
    /\ ntodo = {}
    /\ clientsMu' = "none"
    /\ delivered' = [v \in Viewers |-> FALSE]
    /\ wpc' = "select"
    /\ UNCHANGED <<fileVars, storeVars, clients, chan, ntodo, sigVer, seenVer,
                   mainVars, monVars, viewVars, modTimes, combined, cycles, idleTicks, firedPaths,
                   everSubscribed>>

\* --------------------------------------------- the viewers and handleSSE
\* A viewer is one client of the server: a browser tab that loads the page,
\* opens the event stream from the page's script and fetches /raw on a reload
\* event, or a client that opens the event stream alone.

\* the browser requests the page: handlePage, renderMarkdown reads content
\* between mu.RLock() and mu.RUnlock()
OpenPage(v) ==
    /\ Alive /\ listening
    /\ ~page[v] /\ vpc[v] = "closed" /\ rpc[v] = "none"
    /\ CanRLock
    /\ src' = [src EXCEPT ![v] = content]
    /\ rpc' = [rpc EXCEPT ![v] = "page"]
    /\ UNCHANGED <<fileVars, storeVars, regVars, mainVars, monVars,
                   watchVars, vpc, ctxDone, page, display, owed, everSubscribed>>

\* after a reload event the page fetches /raw: handleRaw, renderMarkdown
FetchRaw(v) ==
    /\ Alive /\ listening
    /\ page[v] /\ owed[v] /\ rpc[v] = "none"
    /\ CanRLock
    /\ src' = [src EXCEPT ![v] = content]
    /\ rpc' = [rpc EXCEPT ![v] = "raw"]
    /\ owed' = [owed EXCEPT ![v] = FALSE]
    /\ UNCHANGED <<fileVars, storeVars, regVars, mainVars, monVars,
                   watchVars, vpc, ctxDone, page, display, everSubscribed>>

\* the converted bytes are written; the response reaches the tab, which shows
\* it
RenderEnd(v) ==
    /\ Alive
    /\ rpc[v] # "none"
    /\ rpc' = [rpc EXCEPT ![v] = "none"]
    /\ page' = [page EXCEPT ![v] = IF rpc[v] = "page" THEN TRUE ELSE @]
    /\ display' = [display EXCEPT ![v] =
                     IF rpc[v] = "page" \/ page[v] THEN Bytes(src[v]) ELSE @]
    /\ src' = [src EXCEPT ![v] = NilHeader]
    /\ UNCHANGED <<fileVars, storeVars, regVars, mainVars, monVars,
                   watchVars, vpc, ctxDone, owed, everSubscribed>>

\* GET /events: handleSSE makes a channel and registers it
SSESubscribe(v) ==
    /\ Alive /\ listening
    /\ vpc[v] = "closed" /\ rpc[v] # "page"
    /\ clientsMu = "none"
    /\ clients' = Register(clients, v)
    /\ chan' = [chan EXCEPT ![v] = 0]
    /\ vpc' = [vpc EXCEPT ![v] = "stream"]
    /\ everSubscribed' = TRUE
    /\ UNCHANGED <<fileVars, storeVars, clientsMu, ntodo, delivered, sigVer, seenVer,
                   mainVars, monVars,
                   watchVars, ctxDone, rpc, src, page, display, owed>>

\* case <-ch
SSERecv(v) ==
    /\ Alive
    /\ vpc[v] = "stream"
    /\ chan[v] > 0
    /\ chan' = [chan EXCEPT ![v] = @ - 1]
    /\ delivered' = [delivered EXCEPT ![v] = (clientsMu = "notify" /\ v \notin ntodo)]
    /\ vpc' = [vpc EXCEPT ![v] = "emit"]
    /\ seenVer' = [seenVer EXCEPT ![v] = IF page[v] THEN sigVer[v] ELSE @]
    /\ sigVer' = [sigVer EXCEPT ![v] = 0]
    /\ UNCHANGED <<fileVars, storeVars, clients, clientsMu, ntodo, mainVars, monVars,
                   watchVars, ctxDone, rpc, src, page, display, owed, everSubscribed>>

\* write the reload event and flush; a page that gets it will fetch /raw
SSEEmit(v) ==
    /\ Alive
    /\ vpc[v] = "emit"
    /\ owed' = [owed EXCEPT ![v] = page[v] /\ ~ctxDone[v]]
    /\ vpc' = [vpc EXCEPT ![v] = "stream"]
    /\ UNCHANGED <<fileVars, storeVars, regVars, mainVars, monVars, watchVars,
                   ctxDone, rpc, src, page, display, everSubscribed>>

\* the tab is closed or the connection drops: the context of an open stream
\* ends
TabClose(v) ==
    /\ Alive
    /\ ~ctxDone[v]
    /\ page[v] \/ vpc[v] \in {"stream", "emit"}
    /\ page' = [page EXCEPT ![v] = FALSE]
    /\ display' = [display EXCEPT ![v] = <<>>]
    /\ owed' = [owed EXCEPT ![v] = FALSE]
    /\ ctxDone' = [ctxDone EXCEPT ![v] = vpc[v] \in {"stream", "emit"}]
    /\ UNCHANGED <<fileVars, storeVars, regVars, mainVars, monVars, watchVars,
                   vpc, rpc, src, everSubscribed>>

\* case <-r.Context().Done(): return
SSEReturn(v) ==
    /\ Alive
    /\ vpc[v] = "stream"
    /\ ctxDone[v]
    /\ vpc' = [vpc EXCEPT ![v] = "defer"]
    /\ UNCHANGED <<fileVars, storeVars, regVars, mainVars, monVars, watchVars,
                   ctxDone, rpc, src, page, display, owed, everSubscribed>>

\* the deferred function: delete(clients, ch) under clientsMu
SSEUnregister(v) ==
    /\ Alive
    /\ vpc[v] = "defer"
    /\ clientsMu = "none"
    /\ clients' = Unregister(clients, v)
    /\ chan' = [chan EXCEPT ![v] = 0]
    /\ vpc' = [vpc EXCEPT ![v] = "closed"]
    /\ ctxDone' = [ctxDone EXCEPT ![v] = FALSE]
    /\ sigVer' = [sigVer EXCEPT ![v] = 0]
    /\ seenVer' = [seenVer EXCEPT ![v] = 0]
    /\ dipped' = IF monpc = "active" /\ clients = {v} THEN "dipped" ELSE dipped
    /\ UNCHANGED <<fileVars, storeVars, clientsMu, ntodo, delivered, mainVars,
                   monpc, count, zeroSamples, firedZeros,
                   watchVars, rpc, src, page, display, owed, everSubscribed>>

\* ---------------------------------------------------------------- Next
Next ==
    \/ \E p \in Paths : \E d \in ContentsOf(p) : \E t \in NewTimes(p) : Edit(p, d, t)
    \/ \E p \in Paths : Delete(p)
    \/ RunStdin
    \/ RunReadFiles
    \/ RunServe
    \/ ServeError
    \/ Signal
    \/ \E c \in {"signal", "disconnect", "ctx"} : RunSelect(c)
    \/ ShutdownDone
    \/ ShutdownTimeout
    \/ MonitorIdleSample
    \/ MonitorIdleCheck
    \/ MonitorActiveSample
    \/ MonitorActiveCheck
    \/ WatchBaseline
    \/ WatchTick
    \/ WatchReturn
    \/ WatchReread
    \/ InstallBegin
    \/ InstallEnd
    \/ NotifyLock
    \/ \E ch \in Viewers : NotifySend(ch)
    \/ NotifyUnlock
    \/ \E v \in Viewers : OpenPage(v)
    \/ \E v \in Viewers : FetchRaw(v)
    \/ \E v \in Viewers : RenderEnd(v)
    \/ \E v \in Viewers : SSESubscribe(v)
    \/ \E v \in Viewers : SSERecv(v)
    \/ \E v \in Viewers : SSEEmit(v)
    \/ \E v \in Viewers : TabClose(v)
    \/ \E v \in Viewers : SSEReturn(v)
    \/ \E v \in Viewers : SSEUnregister(v)

Spec == Init /\ [][Next]_vars

\* Sessions that read piped input: filePath is "" and watchFiles is never
\* started, so the registry is touched by the streams and the monitor only.
LifeInit == Init /\ args = <<>>

LifeNext ==
    \/ RunStdin
    \/ RunServe
    \/ ServeError
    \/ Signal
    \/ \E c \in {"signal", "disconnect", "ctx"} : RunSelect(c)
    \/ ShutdownDone
    \/ ShutdownTimeout
    \/ MonitorIdleSample
    \/ MonitorIdleCheck
    \/ MonitorActiveSample
    \/ MonitorActiveCheck
    \/ \E v \in Viewers : OpenPage(v)
    \/ \E v \in Viewers : RenderEnd(v)
    \/ \E v \in Viewers : SSESubscribe(v)
    \/ \E v \in Viewers : TabClose(v)
    \/ \E v \in Viewers : SSEReturn(v)
    \/ \E v \in Viewers : SSEUnregister(v)

LifeSpec == LifeInit /\ [][LifeNext]_vars

\* The goroutines of the process are scheduled; what the browser and the
\* operator do (open, subscribe, close, interrupt) and a server error are not
\* forced.
LifeFairness ==
    /\ WF_vars(RunStdin) /\ WF_vars(RunServe)
    /\ WF_vars(\E c \in {"signal", "disconnect", "ctx"} : RunSelect(c))
    /\ WF_vars(ShutdownDone) /\ WF_vars(ShutdownTimeout)
    /\ WF_vars(MonitorIdleSample) /\ WF_vars(MonitorIdleCheck)
    /\ WF_vars(MonitorActiveSample) /\ WF_vars(MonitorActiveCheck)
    /\ \A v \in Viewers : /\ WF_vars(RenderEnd(v))
                          /\ WF_vars(SSEReturn(v))
                          /\ WF_vars(SSEUnregister(v))

LifeFair == LifeSpec /\ LifeFairness

\* Path-mode sessions as the change detector sees them: every file event, no
\* viewer.  The monitor, the signal and the shutdown only write run's own
\* state; what they do to watchFiles (ctx is cancelled) is what ServeError
\* does here.
DetectInit == Init /\ args # <<>>

DetectNext ==
    \/ \E p \in Paths : \E d \in ContentsOf(p) : \E t \in NewTimes(p) : Edit(p, d, t)
    \/ \E p \in Paths : Delete(p)
    \/ RunReadFiles
    \/ RunServe
    \/ ServeError
    \/ WatchBaseline
    \/ WatchTick
    \/ WatchReturn
    \/ WatchReread
    \/ InstallBegin
    \/ InstallEnd
    \/ NotifyLock
    \/ NotifyUnlock

DetectSpec == DetectInit /\ [][DetectNext]_vars

\* The same sessions started on non-empty files: what the detector finds
\* depends on the times of the files, not on what they hold.
TickInit == DetectInit /\ fdata = [p \in Paths |-> <<64 + p>>]

\* an edit that rewrites what the file holds and sets its time
Touch ==
    \E p \in Paths : \E t \in NewTimes(p) : Edit(p, <<64 + p>>, t)

TickNext ==
    \/ Touch
    \/ \E p \in Paths : Delete(p)
    \/ RunReadFiles
    \/ RunServe
    \/ ServeError
    \/ WatchBaseline
    \/ WatchTick
    \/ WatchReturn
    \/ WatchReread
    \/ InstallBegin
    \/ InstallEnd
    \/ NotifyLock
    \/ NotifyUnlock

TickSpec == TickInit /\ [][TickNext]_vars

\* The operator edits the file that filePath names
EditFirst ==
    \E p \in {q \in Paths : q = filePath} :
        \E d \in ContentsOf(p) : \E t \in NewTimes(p) : Edit(p, d, t)

\* Path-mode sessions as the store sees them: the detector installs what the
\* edits of the first file make it read, and pages are requested meanwhile.
StoreInit ==
    /\ Init /\ args # <<>>
    /\ fexists = [p \in Paths |-> TRUE]
    /\ fdata = [p \in Paths |-> <<64 + p>>]

StoreNext ==
    \/ EditFirst
    \/ RunReadFiles
    \/ RunServe
    \/ ServeError
    \/ WatchBaseline
    \/ WatchTick
    \/ WatchReturn
    \/ WatchReread
    \/ InstallBegin
    \/ InstallEnd
    \/ NotifyLock
    \/ NotifyUnlock
    \/ \E v \in Viewers : OpenPage(v)
    \/ \E v \in Viewers : RenderEnd(v)
    \/ \E v \in Viewers : TabClose(v)

StoreSpec == StoreInit /\ [][StoreNext]_vars

\* Path-mode sessions as the broadcaster sees them: the detector notifies
\* when the first file is rewritten (what it holds does not reach the
\* channels), and clients open and drop event streams.
\* the file that filePath names is rewritten and its time set
TouchFirst ==
    \E p \in {q \in Paths : q = filePath} :
        \E t \in NewTimes(p) : Edit(p, <<64 + p>>, t)

CastNext ==
    \/ TouchFirst
    \/ RunReadFiles
    \/ RunServe
    \/ ServeError
    \/ WatchBaseline
    \/ WatchTick
    \/ WatchReturn
    \/ WatchReread
    \/ InstallBegin
    \/ InstallEnd
    \/ NotifyLock
    \/ \E ch \in Viewers : NotifySend(ch)
    \/ NotifyUnlock
    \/ \E v \in Viewers : SSESubscribe(v)
    \/ \E v \in Viewers : SSERecv(v)
    \/ \E v \in Viewers : SSEEmit(v)
    \/ \E v \in Viewers : TabClose(v)
    \/ \E v \in Viewers : SSEReturn(v)
    \/ \E v \in Viewers : SSEUnregister(v)

CastSpec == StoreInit /\ [][CastNext]_vars

\* The handleSSE goroutines are scheduled: a handler whose channel holds a
\* signal receives it, and a handler that received one writes the event.
CastFairness ==
    \A v \in Viewers : WF_vars(SSERecv(v)) /\ WF_vars(SSEEmit(v))

\* The watchFiles goroutine is scheduled inside notifyClients; nothing is
\* assumed of the handlers.
NotifyFairness ==
    /\ WF_vars(\E ch \in Viewers : NotifySend(ch))
    /\ WF_vars(NotifyUnlock)

\* an edit of the file that filePath names that moves its time forward
EditAdvance ==
    \E p \in {q \in Paths : q = filePath} :
        \E d \in ContentsOf(p) : Edit(p, d, fmtime[p] + 1)

\* Path-mode sessions that are not cancelled: the files stay readable, the
\* edits move the time of the first file forward, and the detector polls.
SyncNext ==
    \/ EditAdvance
    \/ RunReadFiles
    \/ RunServe
    \/ WatchBaseline
    \/ WatchTick
    \/ WatchReread
    \/ InstallBegin
    \/ InstallEnd
    \/ NotifyLock
    \/ NotifyUnlock

SyncSpec == StoreInit /\ [][SyncNext]_vars

\* Path-mode sessions as a browser tab sees them: the tab requests the page,
\* its script opens the event stream and fetches /raw on every reload event,
\* while the first file is edited and the detector installs and notifies.
PageNext ==
    \/ EditAdvance
    \/ RunReadFiles
    \/ RunServe
    \/ WatchBaseline
    \/ WatchTick
    \/ WatchReread
    \/ InstallBegin
    \/ InstallEnd
    \/ NotifyLock
    \/ \E ch \in Viewers : NotifySend(ch)
    \/ NotifyUnlock
    \/ \E v \in Viewers : OpenPage(v)
    \/ \E v \in Viewers : RenderEnd(v)
    \/ \E v \in Viewers : SSESubscribe(v)
    \/ \E v \in Viewers : SSERecv(v)
    \/ \E v \in Viewers : SSEEmit(v)
    \/ \E v \in Viewers : FetchRaw(v)

PageSpec == StoreInit /\ [][PageNext]_vars

\* the file that filePath names is rewritten and its time moves forward
TouchAdvance ==
    \E p \in {q \in Paths : q = filePath} : Edit(p, <<64 + p>>, fmtime[p] + 1)

\* The same sessions where the file is rewritten with what it held: the order
\* of installs, signals and reads does not depend on what the file holds.
ReloadNext ==
    \/ TouchAdvance
    \/ RunReadFiles
    \/ RunServe
    \/ WatchBaseline
    \/ WatchTick
    \/ WatchReread
    \/ InstallBegin
    \/ InstallEnd
    \/ NotifyLock
    \/ \E ch \in Viewers : NotifySend(ch)
    \/ NotifyUnlock
    \/ \E v \in Viewers : OpenPage(v)
    \/ \E v \in Viewers : RenderEnd(v)
    \/ \E v \in Viewers : SSESubscribe(v)
    \/ \E v \in Viewers : SSERecv(v)
    \/ \E v \in Viewers : SSEEmit(v)
    \/ \E v \in Viewers : FetchRaw(v)

ReloadSpec == StoreInit /\ [][ReloadNext]_vars

\* Path-mode sessions as the fan-out sees them: streams register and their
\* handlers receive and write, or do not, while the detector notifies.
FanNext ==
    \/ TouchFirst
    \/ RunReadFiles
    \/ RunServe
    \/ WatchBaseline
    \/ WatchTick
    \/ WatchReread
    \/ InstallBegin
    \/ InstallEnd
    \/ NotifyLock
    \/ \E ch \in Viewers : NotifySend(ch)
    \/ NotifyUnlock
    \/ \E v \in Viewers : SSESubscribe(v)
    \/ \E v \in Viewers : SSERecv(v)
    \/ \E v \in Viewers : SSEEmit(v)

FanSpec == StoreInit /\ [][FanNext]_vars

FanFair == FanSpec /\ CastFairness

FanNotifyFair == FanSpec /\ NotifyFairness

\* Piped-input sessions as the registry sees them: streams only.
RegNext ==
    \/ RunStdin
    \/ RunServe
    \/ ServeError
    \/ Signal
    \/ \E c \in {"signal", "disconnect", "ctx"} : RunSelect(c)
    \/ ShutdownDone
    \/ ShutdownTimeout
    \/ MonitorIdleSample
    \/ MonitorIdleCheck
    \/ MonitorActiveSample
    \/ MonitorActiveCheck
    \/ \E v \in Viewers : SSESubscribe(v)
    \/ \E v \in Viewers : TabClose(v)
    \/ \E v \in Viewers : SSEReturn(v)
    \/ \E v \in Viewers : SSEUnregister(v)

RegSpec == LifeInit /\ [][RegNext]_vars

RegFair == RegSpec /\ LifeFairness

\* ================================================================ claims

\* ---- C1
\* C1: every read of the snapshot by renderMarkdown returns one header that
\* was installed in full, the startup one or a later one, never the pointer of
\* one install with the length of another.
C1_ReadsWholeSnapshot ==
    \A v \in Viewers : rpc[v] # "none" => src[v] \in installed

\* C1 witness: an install is half done (new pointer, old length) while a
\* request that has read the snapshot is still running.
C1_Witness ==
    /\ wpc = "installing"
    /\ content.len # Len(content.ptr)
    /\ \E v \in Viewers : rpc[v] # "none" /\ src[v] \in installed

\* ---- C2
\* C2 as stated: when the range loop of notifyClients is over, every
\* registered channel holds a pending signal.
C2_AllPendingAtReturn ==
    (wpc = "sending" /\ ntodo = {}) => \A ch \in clients : chan[ch] >= 1

\* C2 amended: no channel ever holds more than one pending signal, and every
\* channel notifyClients has sent to holds a pending signal or its stream has
\* received one since that send.
C2_NotifyReachesAll ==
    /\ \A ch \in Viewers : chan[ch] <= ChanCap
    /\ wpc = "sending" =>
         \A ch \in clients \ ntodo : chan[ch] >= 1 \/ delivered[ch]

\* C2 witness: notifyClients is over its loop for two registered channels and
\* both hold a signal, after a second change.
C2_Witness ==
    /\ wpc = "sending" /\ ntodo = {}
    /\ Cardinality(clients) >= 2
    /\ \A ch \in clients : chan[ch] = 1
    /\ cycles >= 2

\* ---- C3
\* C3: while no viewer has ever subscribed the monitor stays in its first
\* loop, disconnectCh is not closed, and run passes its select only on a
\* signal or on ctx (server error).
C3_IdleNeverDrains ==
    ~everSubscribed =>
        /\ ~disconnectClosed
        /\ monpc \notin {"active", "activeCheck"}
        /\ mpc \in {"shutdown", "exited"} => cause \in {"signal", "ctx"}

\* C3 witness: two zero samples taken, no viewer yet, run still waits.
C3_Witness ==
    /\ ~everSubscribed
    /\ zeroSamples >= 2
    /\ monpc = "idle"
    /\ mpc = "select"

\* ---- C4
\* C4 as stated: disconnectCh is closed only after two consecutive samples
\* found the registry empty (with no subscribe in between).
C4_TwoZeroSamples == disconnectClosed => firedZeros >= 2

\* C4 amended: disconnectCh is closed only after a viewer was observed, on a
\* sample that found the registry empty, and that sample is the first one to
\* find it empty since a viewer was observed.
C4_DrainOnFirstZero ==
    disconnectClosed => firedZeros = 1 /\ everSubscribed

\* C4 witness: the drain has fired and a stream that subscribed after the
\* zero sample is registered; run has not yet passed its select.
C4_Witness ==
    /\ disconnectClosed /\ firedZeros = 1
    /\ mpc = "select"
    /\ clients # {}

\* ---- C5
\* C5: a tick finds a change only for a path whose time an edit moved
\* strictly past the recorded one, and there are never more ticks that found a
\* change than such edits: the tick after the baseline, and the ticks after a
\* recorded change, find nothing.
C5_NoSpuriousChange ==
    /\ firedPaths \subseteq advanced
    /\ cycles <= advEdits

\* C5 witness: a tick found nothing, then an edit moved a time forward and a
\* tick found it, and an edit that did not move a time forward was not found.
C5_Witness ==
    /\ idleTicks >= 1
    /\ cycles = 1 /\ advEdits = 1
    /\ edits = 2
    /\ wpc = "select"

\* the data of the paths that can be read, in order
ReadableData(paths) ==
    LET idx == SelectSeq([i \in 1..Len(paths) |-> i], LAMBDA i : fexists[paths[i]])
    IN [k \in 1..Len(idx) |-> fdata[paths[idx[k]]]]

\* the sources joined with one separator between consecutive ones
RECURSIVE JoinSeq(_)
JoinSeq(ds) ==
    IF ds = <<>> THEN <<>>
    ELSE IF Len(ds) = 1 THEN ds[1]
    ELSE ds[1] \o Sep \o JoinSeq(Tail(ds))

\* the non-empty sources joined
JoinNonEmpty(ds) == JoinSeq(SelectSeq(ds, LAMBDA d : d # <<>>))

\* ---- C6
\* C6: the snapshot combined at startup and on a re-read is the non-empty
\* sources in order with exactly one separator between consecutive ones.
C6_JoinNonEmpty ==
    [][/\ (mpc = "start" /\ mpc' = "listen") =>
            Bytes(content') = JoinNonEmpty(ReadableData(args))
       /\ (wpc = "reread" /\ wpc' = "install") =>
            combined' = JoinNonEmpty(ReadableData(args))]_vars

\* ---- C7
\* C7: when a source cannot be read at the re-read that follows a change,
\* the cycle goes on to the install and the snapshot is the readable sources
\* joined in order with a single separator.
C7_PartialFailure ==
    [][(wpc = "reread" /\ wpc' # "reread" /\ \E p \in PathSet(args) : ~fexists[p]) =>
          /\ wpc' = "install"
          /\ combined' = JoinNonEmpty(ReadableData(args))]_vars

\* ---- C8
\* C8: if a viewer has subscribed and the registry is empty from some point
\* on, the process exits.
C8_DrainExits ==
    <>[](everSubscribed /\ clients = {}) => <>(mpc = "exited")

\* ---- C9
\* C9: when the process exits after the shutdown trigger, every stream has
\* returned from handleSSE and the registry is empty: server.Shutdown did not
\* give up on an open stream.
C9_StreamsClosedOnShutdown ==
    mpc = "exited" =>
        /\ clients = {}
        /\ \A v \in Viewers : vpc[v] \notin {"stream", "emit", "defer"}

\* ---- C10
\* C10: the registry is exactly the channels of the streams between their
\* registration and their deferred delete; an entry is added only by a stream
\* that registers and removed only by that stream after its context ended;
\* and an entry whose stream's context ended is removed while the process runs.
C10_RegistryMatchesStreams ==
    /\ [](clients = {v \in Viewers : vpc[v] \in {"stream", "emit", "defer"}})
    /\ [][\A v \in Viewers :
            /\ (v \notin clients /\ v \in clients') => vpc[v] = "closed"
            /\ (v \in clients /\ v \notin clients') => vpc[v] = "defer" /\ ctxDone[v]]_vars
    /\ \A v \in Viewers :
         (v \in clients /\ ctxDone[v]) ~> (v \notin clients \/ ~Alive)

\* C10 witness: the monitor has seen a registered stream, and every stream
\* has since ended and been removed.
C10_Witness ==
    /\ Alive
    /\ monpc = "active"
    /\ everSubscribed
    /\ clients = {}
    /\ \A v \in Viewers : vpc[v] = "closed"

\* ---- C11
\* C11: no edit is missed for good: whenever watchFiles waits for a tick
\* that has nothing left to find, so that the snapshot stays as it is until
\* the next edit, the snapshot is the join of what the files hold.
C11_SnapshotCatchesUp ==
    (wpc = "select" /\ ChangedPaths = {}) =>
        Bytes(content) = JoinNonEmpty(ReadableData(args))

\* the detector waits for a tick that has nothing to find
DetectorQuiet == wpc = "select" /\ ChangedPaths = {}

\* viewer v shows the page, its stream is registered and waits with no signal
\* pending, and no fetch of it is owed or running
ViewerQuiet(v) ==
    /\ page[v] /\ vpc[v] = "stream" /\ v \in clients
    /\ chan[v] = 0 /\ ~owed[v] /\ rpc[v] = "none"

\* ---- C12
\* C12: once the changes have stopped and nothing is under way for a viewer
\* that loaded the page and opened the stream, so that what it displays stays
\* as it is, it displays the current snapshot.
C12_ViewerCatchesUp ==
    \A v \in Viewers :
        (DetectorQuiet /\ ViewerQuiet(v)) => display[v] = Bytes(content)

\* ---- C13
\* C13: the signal pending in a channel and the signal a stream received last
\* come from a cycle whose snapshot is already installed, and the installed
\* snapshot never goes back to an earlier cycle: a read made after a signal
\* was received returns the snapshot of that signal's cycle or a later one.
C13_InstallBeforeNotify ==
    /\ [](\A v \in Viewers : /\ chan[v] > 0 => sigVer[v] <= cver
                              /\ seenVer[v] <= cver)
    /\ [][cver' >= cver]_vars

\* C13 witness: a viewer received the signal of the second cycle and its
\* fetch has read the snapshot of that cycle.
C13_Witness ==
    \E v \in Viewers :
        /\ seenVer[v] = 2
        /\ rpc[v] = "raw" /\ src[v] = content
        /\ cver = 2

\* ---- C14
\* C14: a send of notifyClients leaves a signal pending in the channel (its
\* own or the one that was already there), and a pending signal of a stream
\* that stays connected is received and the reload event is written.
C14_NotifiedViewerEmits ==
    /\ [][\A v \in Viewers : (v \in ntodo /\ v \notin ntodo') => chan'[v] >= 1]_vars
    /\ \A v \in Viewers :
         /\ (chan[v] > 0) ~> (vpc[v] = "emit")
         /\ (vpc[v] = "emit") ~> (vpc[v] = "stream")

\* C14 witness: the send of the second cycle found the slot full with the
\* signal of the first cycle, which is still pending.
C14_Witness ==
    /\ wpc = "sending" /\ cycles = 2
    /\ \E v \in clients \ ntodo :
         chan[v] = 1 /\ sigVer[v] = 1

\* ---- C15
\* C15: once notifyClients holds the registry lock it finishes its loop and
\* releases the lock, whatever the stream handlers do or fail to do.
C15_NotifyCompletes ==
    (clientsMu = "notify") ~> (clientsMu = "none" /\ wpc = "select")

\* C15 witness: notifyClients is about to send to a channel whose slot is
\* full while the handler of a registered stream is busy writing.
C15_Witness ==
    /\ wpc = "sending" /\ clientsMu = "notify"
    /\ \E v \in ntodo : chan[v] = ChanCap
    /\ \E w \in clients : vpc[w] = "emit"

\* ---- C16
\* C16: mu and clientsMu are never held at the same time: watchFiles, the
\* one flow that takes both across steps, has released mu when notifyClients
\* takes clientsMu.
C16_NeverBothLocks ==
    muW = "none" \/ clientsMu = "none"

\* C16 witness: notifyClients holds clientsMu after the install of the
\* same cycle, and a request has read the snapshot of that cycle meanwhile.
C16_Witness ==
    /\ clientsMu = "notify"
    /\ cver = cycles /\ cver >= 1
    /\ \E v \in Viewers : rpc[v] = "page" /\ src[v] = content /\ src[v] # NilHeader

\* ---- C17
\* C17: once ctx is cancelled, watchFiles at its select takes no tick: it
\* stats nothing, records no time and starts no cycle; it stays or returns.
C17_NoTickAfterCancel ==
    [][(ctxCancelled /\ wpc = "select") =>
          /\ wpc' \in {"select", "done"}
          /\ modTimes' = modTimes
          /\ idleTicks' = idleTicks]_vars

\* ---- C18
\* C18: the check of a sample that found a stream registered does not close
\* disconnectCh and leaves the monitor in its second loop (it returns only
\* when ctx is done), whatever happened to the registry before the sample.
C18_ReconnectKeepsActive ==
    [][(monpc = "activeCheck" /\ count > 0) =>
          /\ disconnectClosed' = disconnectClosed
          /\ monpc' \in {"activeCheck", "active", "done"}
          /\ monpc' = "done" => ctxCancelled]_vars

\* C18 witness: after a viewer was observed the registry went empty and a
\* stream registered before the next sample; that sample was checked, and
\* the monitor is in its second loop with disconnectCh open.
C18_Witness ==
    /\ dipped = "kept"
    /\ monpc = "active"
    /\ ~disconnectClosed
    /\ mpc = "select"

\* the watched paths that stat with a time past the recorded one
Pending == {p \in DOMAIN modTimes : fexists[p] /\ fmtime[p] > modTimes[p]}

====
